---- MODULE Spec2Model ----
(***************************************************************************)
(* Model of the desktop-shell bootstrap in                                 *)
(* src/frontend/src-tauri/src/main.rs: main() builds the GUI application,  *)
(* runs the setup closure (release build: resolve the "backend" sidecar,   *)
(* spawn it, register the child handle in application state; debug build:  *)
(* print an instruction), and then runs the event loop.                    *)
(*                                                                         *)
(* The program steps are the actions BuildApp .. AppExit; the spawned      *)
(* child is an independent OS process whose own steps (ChildEmit,          *)
(* ChildExit) interleave freely with those of the main thread.             *)
(***************************************************************************)
EXTENDS Naturals, Sequences, FiniteSets

\* ---------------------------------------------------------------- bounds
\* Process identifiers the operating system may hand out for the child.
MaxPid == 2
\* Events the event loop handles before it stops taking more.
MaxEvents == 3
\* Output events the child writes to its channel.
MaxOutput == 2

Pids == 1..MaxPid

\* ------------------------------------------------------------- constants
NoHandle == 0

DevMsg == "Dev mode: Run backend separately with 'cd backend && bun run dev'"
ErrSidecar == "Failed to create sidecar command"
ErrSpawn == "Failed to spawn backend sidecar"
ErrRun == "error while running tauri application"
NoError == "none"

\* ----------------------------------------------------------------- state
VARIABLES
    mode,           \* "debug" | "release": cfg(debug_assertions), fixed at compile time
    sidecarPresent, \* environment: the bundled "backend" executable can be resolved
    osAllowsSpawn,  \* environment: the operating system accepts process creation
    pc,             \* position of the main thread
    err,            \* the panic message, NoError while none
    resolved,       \* the sidecar command has been constructed (line 16)
    spawnAttempts,  \* calls of sidecar.spawn()
    spawned,        \* child processes the operating system created
    childPid,       \* pid of the created child, NoHandle while none
    childAlive,     \* the child process is running
    localChild,     \* the handle held by the local variable `child`
    managed,        \* the handle held by the application state (_app.manage)
    rx,             \* the receiver `_rx`: "none" | "open" | "dropped"
    rxBuf,          \* events waiting in the child's output channel
    rxRead,         \* events the supervisor took out of the channel
    emitted,        \* events the child wrote
    stdout,         \* lines printed by the application
    events          \* events handled by the event loop

vars == << mode, sidecarPresent, osAllowsSpawn, pc, err, resolved, spawnAttempts,
           spawned, childPid, childAlive, localChild, managed, rx, rxBuf, rxRead,
           emitted, stdout, events >>

env == << mode, sidecarPresent, osAllowsSpawn >>
childVars == << spawned, childPid, childAlive >>
chanVars == << rx, rxBuf, rxRead, emitted >>

PcValues == { "build", "setup", "resolved", "spawned", "managed", "printed",
              "ok", "running", "exited", "panicked" }

TypeOK ==
    /\ mode \in {"debug", "release"}
    /\ sidecarPresent \in BOOLEAN
    /\ osAllowsSpawn \in BOOLEAN
    /\ pc \in PcValues
    /\ err \in {NoError, ErrSidecar, ErrSpawn, ErrRun}
    /\ resolved \in BOOLEAN
    /\ spawnAttempts \in Nat
    /\ spawned \in Nat
    /\ childPid \in Pids \cup {NoHandle}
    /\ childAlive \in BOOLEAN
    /\ localChild \in Pids \cup {NoHandle}
    /\ managed \in Pids \cup {NoHandle}
    /\ rx \in {"none", "open", "dropped"}
    /\ rxBuf \in 0..MaxOutput
    /\ rxRead \in 0..MaxOutput
    /\ emitted \in 0..MaxOutput
    /\ stdout \in Seq({DevMsg})
    /\ events \in 0..MaxEvents

\* The process as main() is entered: nothing resolved, spawned or printed.
Init ==
    /\ mode \in {"debug", "release"}
    /\ sidecarPresent \in BOOLEAN
    /\ osAllowsSpawn \in BOOLEAN
    /\ pc = "build"
    /\ err = NoError
    /\ resolved = FALSE
    /\ spawnAttempts = 0
    /\ spawned = 0
    /\ childPid = NoHandle
    /\ childAlive = FALSE
    /\ localChild = NoHandle
    /\ managed = NoHandle
    /\ rx = "none"
    /\ rxBuf = 0
    /\ rxRead = 0
    /\ emitted = 0
    /\ stdout = << >>
    /\ events = 0

\* ------------------------------------------------------ main-thread steps

\* Builder::default().plugin(..).setup(..).run(context): the application is
\* built and the setup closure is entered; a failure to build makes run()
\* return Err, on which .expect panics (lines 9-10, 30-31).
BuildApp ==
    /\ pc = "build"
    /\ \E built \in BOOLEAN :
          IF built
          THEN /\ pc' = "setup"
               /\ err' = err
          ELSE /\ pc' = "panicked"
               /\ err' = ErrRun
    /\ UNCHANGED << env, resolved, spawnAttempts, childVars, localChild, managed,
                    chanVars, stdout, events >>

\* A defect variant: a failed resolution is ignored and setup carries on.
SidecarIgnoreFailure ==
    /\ pc = "setup"
    /\ mode = "release"
    /\ resolved' = TRUE
    /\ pc' = "resolved"
    /\ UNCHANGED << env, err, spawnAttempts, childVars, localChild, managed,
                    chanVars, stdout, events >>

\* let sidecar = _app.shell().sidecar("backend").expect(..)  (lines 16-17)
Sidecar ==
    /\ pc = "setup"
    /\ mode = "release"
    /\ IF sidecarPresent
       THEN /\ resolved' = TRUE
            /\ pc' = "resolved"
            /\ err' = err
       ELSE /\ resolved' = FALSE
            /\ pc' = "panicked"
            /\ err' = ErrSidecar
    /\ UNCHANGED << env, spawnAttempts, childVars, localChild, managed,
                    chanVars, stdout, events >>

\* A defect variant: a rejected spawn is logged and setup carries on.
SpawnWarnOnly ==
    /\ pc = "resolved"
    /\ spawnAttempts' = spawnAttempts + 1
    /\ IF osAllowsSpawn
       THEN /\ \E pid \in Pids :
                  /\ childPid' = pid
                  /\ localChild' = pid
            /\ spawned' = spawned + 1
            /\ childAlive' = TRUE
            /\ rx' = "open"
            /\ pc' = "spawned"
       ELSE /\ UNCHANGED << childVars, localChild, rx >>
            /\ pc' = "ok"
    /\ UNCHANGED << env, err, resolved, managed, rxBuf, rxRead, emitted, stdout, events >>

\* A defect variant: a rejected spawn is tried again.
SpawnRetry ==
    /\ pc = "resolved"
    /\ spawnAttempts' = spawnAttempts + (IF osAllowsSpawn THEN 1 ELSE 2)
    /\ IF osAllowsSpawn
       THEN /\ \E pid \in Pids :
                  /\ childPid' = pid
                  /\ localChild' = pid
            /\ spawned' = spawned + 1
            /\ childAlive' = TRUE
            /\ rx' = "open"
            /\ pc' = "spawned"
            /\ err' = err
       ELSE /\ UNCHANGED << childVars, localChild, rx >>
            /\ pc' = "panicked"
            /\ err' = ErrSpawn
    /\ UNCHANGED << env, resolved, managed, rxBuf, rxRead, emitted, stdout, events >>

\* let (_rx, child) = sidecar.spawn().expect(..)  (lines 18-19)
Spawn ==
    /\ pc = "resolved"
    /\ spawnAttempts' = spawnAttempts + 1
    /\ IF osAllowsSpawn
       THEN /\ \E pid \in Pids :
                  /\ childPid' = pid
                  /\ localChild' = pid
            /\ spawned' = spawned + 1
            /\ childAlive' = TRUE
            /\ rx' = "open"
            /\ pc' = "spawned"
            /\ err' = err
       ELSE /\ UNCHANGED << childVars, localChild, rx >>
            /\ pc' = "panicked"
            /\ err' = ErrSpawn
    /\ UNCHANGED << env, resolved, managed, rxBuf, rxRead, emitted, stdout, events >>

\* A defect variant: the handle is copied into the state, the local keeps it.
ManageKeepLocal ==
    /\ pc = "spawned"
    /\ managed' = localChild
    /\ pc' = "managed"
    /\ UNCHANGED << env, err, resolved, spawnAttempts, childVars, localChild,
                    chanVars, stdout, events >>

\* A defect variant: the handle is dropped instead of being registered.
ManageDropped ==
    /\ pc = "spawned"
    /\ localChild' = NoHandle
    /\ pc' = "managed"
    /\ UNCHANGED << env, err, resolved, spawnAttempts, childVars, managed,
                    chanVars, stdout, events >>

\* _app.manage(child): the handle moves from the local into the state (line 20)
Manage ==
    /\ pc = "spawned"
    /\ managed' = localChild
    /\ localChild' = NoHandle
    /\ pc' = "managed"
    /\ UNCHANGED << env, err, resolved, spawnAttempts, childVars,
                    chanVars, stdout, events >>

\* println!("Dev mode: ...") in the debug block (lines 23-26)
DevPrint ==
    /\ pc = "setup"
    /\ mode = "debug"
    /\ stdout' = Append(stdout, DevMsg)
    /\ pc' = "printed"
    /\ UNCHANGED << env, err, resolved, spawnAttempts, childVars, localChild,
                    managed, chanVars, events >>

\* A defect variant: the instruction is printed on the way out in any build.
SetupReturnPrinting ==
    /\ pc \in {"managed", "printed"}
    /\ IF rx = "open"
       THEN /\ rx' = "dropped"
            /\ rxBuf' = 0
       ELSE UNCHANGED << rx, rxBuf >>
    /\ stdout' = Append(stdout, DevMsg)
    /\ pc' = "ok"
    /\ UNCHANGED << env, err, resolved, spawnAttempts, childVars, localChild,
                    managed, rxRead, emitted, events >>

\* A defect variant: the registered handle is released when the block ends.
SetupReturnReleasing ==
    /\ pc \in {"managed", "printed"}
    /\ IF rx = "open"
       THEN /\ rx' = "dropped"
            /\ rxBuf' = 0
       ELSE UNCHANGED << rx, rxBuf >>
    /\ managed' = NoHandle
    /\ pc' = "ok"
    /\ UNCHANGED << env, err, resolved, spawnAttempts, childVars, localChild,
                    rxRead, emitted, stdout, events >>

\* The end of the cfg block and Ok(()): in a release build `_rx` goes out of
\* scope unread, whatever it holds is discarded (lines 21, 26, 28).
SetupReturn ==
    /\ pc \in {"managed", "printed"}
    /\ IF rx = "open"
       THEN /\ rx' = "dropped"
            /\ rxBuf' = 0
       ELSE UNCHANGED << rx, rxBuf >>
    /\ pc' = "ok"
    /\ UNCHANGED << env, err, resolved, spawnAttempts, childVars, localChild,
                    managed, rxRead, emitted, stdout, events >>

\* A defect variant: the event loop is entered without waiting for setup.
EnterLoopEarly ==
    /\ pc \in {"setup", "resolved", "spawned", "ok"}
    /\ pc' = "running"
    /\ UNCHANGED << env, err, resolved, spawnAttempts, childVars, localChild,
                    managed, chanVars, stdout, events >>

\* A defect variant: the event loop starts only when a handle is registered.
EnterLoopOnlyWithChild ==
    /\ pc = "ok"
    /\ managed # NoHandle
    /\ pc' = "running"
    /\ UNCHANGED << env, err, resolved, spawnAttempts, childVars, localChild,
                    managed, chanVars, stdout, events >>

\* setup returned Ok(()): run() goes on to the event loop (lines 28-30)
EnterLoop ==
    /\ pc = "ok"
    /\ pc' = "running"
    /\ UNCHANGED << env, err, resolved, spawnAttempts, childVars, localChild,
                    managed, chanVars, stdout, events >>

\* The event loop handles one event; no handler of main.rs touches the child.
HandleEvent ==
    /\ pc = "running"
    /\ events < MaxEvents
    /\ events' = events + 1
    /\ UNCHANGED << env, pc, err, resolved, spawnAttempts, childVars, localChild,
                    managed, chanVars, stdout >>

\* The event loop ends and the process exits: the application state goes
\* away with it.  main.rs neither kills nor awaits the child, so whether the
\* child outlives the application is left to the platform.
AppExit ==
    /\ pc = "running"
    /\ pc' = "exited"
    /\ managed' = NoHandle
    /\ \E survives \in BOOLEAN : childAlive' = (childAlive /\ survives)
    /\ UNCHANGED << env, err, resolved, spawnAttempts, spawned, childPid,
                    localChild, chanVars, stdout, events >>

\* ------------------------------------------------------ the child process

\* The child writes an output event: it is queued while `_rx` is alive and
\* lost once `_rx` has been dropped.
ChildEmit ==
    /\ childAlive
    /\ emitted < MaxOutput
    /\ emitted' = emitted + 1
    /\ rxBuf' = IF rx = "open" THEN rxBuf + 1 ELSE rxBuf
    /\ UNCHANGED << env, pc, err, resolved, spawnAttempts, childVars, localChild,
                    managed, rx, rxRead, stdout, events >>

\* The child terminates by itself; nothing in main.rs observes it.
ChildExit ==
    /\ childAlive
    /\ childAlive' = FALSE
    /\ UNCHANGED << env, pc, err, resolved, spawnAttempts, spawned, childPid,
                    localChild, managed, chanVars, stdout, events >>

\* ----------------------------------------------------------- specification
MainStep ==
    \/ BuildApp
    \/ Sidecar
    \/ Spawn
    \/ Manage
    \/ DevPrint
    \/ SetupReturn
    \/ EnterLoop

Next ==
    \/ BuildApp
    \/ Sidecar
    \/ Spawn
    \/ Manage
    \/ DevPrint
    \/ SetupReturn
    \/ EnterLoop
    \/ HandleEvent
    \/ AppExit
    \/ ChildEmit
    \/ ChildExit

Spec == Init /\ [][Next]_vars

\* The startup sequence runs synchronously on the main thread: a step of it
\* that can be taken is taken.
FairSpec == Init /\ [][Next]_vars /\ WF_vars(MainStep)

\* ------------------------------------------------------------- properties
Release == mode = "release"
Debug == mode = "debug"

\* C1: in a release startup the backend spawn is attempted at most once in
\* any state, and whenever the event loop is running (or has run) the number
\* of spawn attempts is exactly one: the attempt precedes the event loop.
C1_OneSpawnBeforeLoop ==
    Release =>
        /\ spawnAttempts <= 1
        /\ pc \in {"running", "exited"} => spawnAttempts = 1

C1_Witness ==
    /\ Release
    /\ pc = "running"
    /\ spawnAttempts = 1
    /\ events > 0

\* C2: in a debug startup no spawn is ever attempted and no child is ever
\* created; once setup has completed exactly one line, the instruction to
\* start the backend separately, has been printed, and never more than one.
C2_DebugNoSpawnOneMessage ==
    Debug =>
        /\ spawnAttempts = 0
        /\ spawned = 0
        /\ Len(stdout) <= 1
        /\ pc \in {"printed", "ok", "running", "exited"} => stdout = << DevMsg >>

C2_Witness ==
    /\ Debug
    /\ pc = "exited"
    /\ stdout = << DevMsg >>
    /\ spawnAttempts = 0

\* C3: in a release startup whose bundled executable cannot be resolved, the
\* application never gets past setup (never ok, running or exited), no spawn
\* is attempted, no child exists, no handle is held or registered; and once
\* setup is entered the startup does end in the panic of the resolution.
C3_ResolutionFailureAborts ==
    /\ []((Release /\ ~sidecarPresent) =>
            /\ pc \in {"build", "setup", "panicked"}
            /\ ~resolved
            /\ spawnAttempts = 0
            /\ spawned = 0
            /\ childPid = NoHandle
            /\ ~childAlive
            /\ localChild = NoHandle
            /\ managed = NoHandle)
    /\ ((Release /\ ~sidecarPresent /\ pc = "setup")
            ~> (pc = "panicked" /\ err = ErrSidecar))

C3_Witness ==
    /\ Release
    /\ ~sidecarPresent
    /\ pc = "panicked"
    /\ err = ErrSidecar

\* C4: in a release startup in which the operating system rejects process
\* creation, the application never gets past the spawn, no child exists, no
\* handle is held or registered, the spawn is attempted at most once, an
\* attempt made has ended in the panic of the spawn; and once the executable
\* is resolved the startup does end in that panic after exactly one attempt.
C4_SpawnFailureAborts ==
    /\ []((Release /\ sidecarPresent /\ ~osAllowsSpawn) =>
            /\ pc \in {"build", "setup", "resolved", "panicked"}
            /\ spawned = 0
            /\ childPid = NoHandle
            /\ localChild = NoHandle
            /\ managed = NoHandle
            /\ spawnAttempts <= 1
            /\ spawnAttempts = 1 => (pc = "panicked" /\ err = ErrSpawn))
    /\ ((pc = "resolved" /\ ~osAllowsSpawn)
            ~> (pc = "panicked" /\ err = ErrSpawn /\ spawnAttempts = 1))

C4_Witness ==
    /\ Release
    /\ ~osAllowsSpawn
    /\ spawnAttempts = 1
    /\ pc = "panicked"
    /\ err = ErrSpawn

\* C5: once a handle is registered in application state, every step that
\* does not end the application leaves the registered handle as it is.
C5_HandleStaysRegistered ==
    [][(managed # NoHandle /\ pc' # "exited") => managed' = managed]_vars

C5_Witness ==
    /\ managed # NoHandle
    /\ pc = "running"
    /\ events = MaxEvents
    /\ ~childAlive

\* C6: once the setup closure has done its work on either path (handle
\* registered, or instruction printed) and returned Ok, the application
\* eventually runs its event loop.
C6_SetupLeadsToEventLoop ==
    (pc \in {"managed", "printed", "ok"}) ~> (pc = "running")

C6_Witness ==
    /\ Debug
    /\ pc = "running"
    /\ events = 0

\* C7 as stated: whenever the application is running, a release run has
\* exactly one child spawned, alive and registered, and a debug run has no
\* child and the instruction printed exactly once.
C7_Original ==
    pc = "running" =>
        /\ Release => (spawned = 1 /\ childAlive /\ managed # NoHandle /\ managed = childPid)
        /\ Debug => (spawned = 0 /\ stdout = << DevMsg >>)

\* C7 amended: whenever the application is running, a release run has
\* exactly one child spawned whose handle is registered in application state
\* (the child itself may have terminated since), and a debug run has no
\* child and the instruction printed exactly once.
C7_RunningStateAmended ==
    pc = "running" =>
        /\ Release => (spawned = 1 /\ managed # NoHandle /\ managed = childPid)
        /\ Debug => (spawned = 0 /\ ~childAlive /\ stdout = << DevMsg >>)

C7_Witness ==
    /\ Release
    /\ pc = "running"
    /\ spawned = 1
    /\ managed = childPid
    /\ ~childAlive

\* C8: in every state of every run at most one child process has been
\* created, and its handle has at most one holder: the local variable until
\* it is registered, the application state alone from then on.
C8_AtMostOneChildOneOwner ==
    /\ spawned <= 1
    /\ ~(localChild # NoHandle /\ managed # NoHandle)
    /\ localChild # NoHandle => (spawned = 1 /\ localChild = childPid)
    /\ managed # NoHandle => (spawned = 1 /\ managed = childPid)

C8_Witness ==
    /\ managed # NoHandle
    /\ localChild = NoHandle
    /\ spawned = 1
    /\ pc = "managed"

\* C9: no run both attempts a spawn and prints the instruction, a release
\* run prints nothing, a debug run resolves nothing, and the build mode never
\* changes during a run.
C9_BranchesExclusive ==
    /\ [](/\ ~(spawnAttempts > 0 /\ stdout # << >>)
          /\ Release => stdout = << >>
          /\ Debug => (~resolved /\ spawnAttempts = 0))
    /\ [][mode' = mode]_vars

C9_Witness ==
    /\ Release
    /\ spawnAttempts = 1
    /\ pc = "ok"
    /\ stdout = << >>

\* C10: in a release startup a spawn is attempted only with the executable
\* resolved, a handle is registered only when a spawn has succeeded and it is
\* the handle of that child, the event loop is entered only with the handle
\* registered, and the supervisor never takes an event out of the child's
\* output channel.
C10_ReleaseStepOrder ==
    /\ [][spawnAttempts' > spawnAttempts => (resolved /\ spawnAttempts = 0)]_vars
    /\ [][(managed' # managed /\ managed' # NoHandle) =>
            (spawned = 1 /\ managed' = childPid /\ spawnAttempts = 1)]_vars
    /\ [][(Release /\ pc' = "running" /\ pc # "running") =>
            (managed # NoHandle /\ managed' = managed)]_vars
    /\ [](rxRead = 0)

C10_Witness ==
    /\ Release
    /\ pc = "running"
    /\ managed # NoHandle
    /\ emitted = MaxOutput
    /\ rxRead = 0

====
